---- MODULE Spec2Model ----
(***************************************************************************)
(* A model of two parts of mp4ff:                                          *)
(*   - examples/decrypt-cenc/main.go: decryptCenc's per-track loop and     *)
(*     decryptSample's CENC sample decryption;                             *)
(*   - the mp4 package's wvtt box family (wvtt, vttC, vlab, vtte, vttc,    *)
(*     vsid, ctim, iden, sttg, payl, vtta): AddChild, Size, Encode and     *)
(*     Decode.                                                             *)
(* Each part has its own specification over its own variable; the other    *)
(* variables stay at their idle value.                                     *)
(***************************************************************************)
EXTENDS Integers, Sequences, FiniteSets, TLC

VARIABLES dec, cenc, tree, wire

vars == <<dec, cenc, tree, wire>>

----------------------------------------------------------------------------
(* Bounds of the model.                                                    *)

\* longest sample payload, in bytes
MaxData == 3
\* bytes of the mdat buffer that follow a sample's payload (slice capacity)
MaxSpare == 1
\* longest subsample list of one sample
MaxSubs == 2
\* largest BytesOfClearData
MaxClear == 1
\* largest BytesOfProtectedData
MaxProt == 2

\* tracks of the moov box
MaxTraks == 2
\* trex boxes of the mvex box
MaxTrexs == 2
\* fragments of the file
MaxFrags == 1
\* boxes of one box tree
MaxBoxes == 3
\* longest text payload of a leaf box built by the caller
MaxText == 1
\* longest payload of a box in a byte stream to decode
MaxPayload == 5
\* children of a container in a byte stream to decode
MaxKids == 2
\* largest difference between a container's declared and actual size
MaxSkew == 1

----------------------------------------------------------------------------
(* Bytes.  The uint32 sums of decryptSample stay far below 2^32 within the  *)
(* bounds, so they are plain sums.                                         *)

ByteMod == 256

RECURSIVE Xor(_, _)
Xor(a, b) ==
    IF a = 0 THEN b
    ELSE IF b = 0 THEN a
    ELSE (((a % 2) + (b % 2)) % 2) + 2 * Xor(a \div 2, b \div 2)

\* Go's buf[lo:hi] (lo, hi zero-based); legal iff lo <= hi <= cap(buf)
SliceOK(cap, lo, hi) == lo <= hi /\ hi <= cap

Slice(buf, lo, hi) == [k \in 1..(hi - lo) |-> buf[lo + k]]

\* the zero padding appended to an 8-byte IV
ZeroPad == [k \in 1..8 |-> 0]

----------------------------------------------------------------------------
(* mp4.DecryptSampleCTR: AES-CTR over one byte string.  Every call builds  *)
(* a new stream from (key, iv); nothing is carried from one call to the    *)
(* next.  The AES block function is abstracted by BlockCipher, which mixes *)
(* every key byte and every counter byte with its position.                *)

RECURSIVE WeightedSum(_, _)
WeightedSum(s, k) ==
    IF k = 0 THEN 0 ELSE (k * s[k] + WeightedSum(s, k - 1)) % ByteMod

\* the 16-byte counter block: iv plus n, big-endian
RECURSIVE AddCounter(_, _, _)
AddCounter(iv, n, k) ==
    IF k = 0 \/ n = 0 THEN iv
    ELSE AddCounter([iv EXCEPT ![k] = (iv[k] + n) % ByteMod],
                    (iv[k] + n) \div ByteMod, k - 1)

\* byte j (0..15) of the encryption of counter block ctr under key
BlockCipher(key, ctr, j) ==
    (WeightedSum(key, Len(key)) + 3 * WeightedSum(ctr, Len(ctr)) + 7 * j + 1) % ByteMod

\* keystream byte at zero-based offset k of the stream seeded by (key, iv)
KeyStream(key, iv, k) == BlockCipher(key, AddCounter(iv, k \div 16, 16), k % 16)

\* XOR of s with the keystream starting at stream offset off
XORKeyStream(s, key, iv, off) ==
    [k \in 1..Len(s) |-> Xor(s[k], KeyStream(key, iv, off + k - 1))]

DecryptSampleCTR(sample, key, iv) ==
    IF Len(key) # 16 THEN [err |-> "InvalidKeyLength", out |-> <<>>]
    ELSE IF Len(iv) # 16 THEN [err |-> "InvalidIVLength", out |-> <<>>]
    ELSE [err |-> "nil", out |-> XORKeyStream(sample, key, iv, 0)]

----------------------------------------------------------------------------
(* decryptSample (main.go 215-255).  buf is the sample's Data followed by  *)
(* the bytes of the underlying buffer up to the slice's capacity; n is     *)
(* len(Data).  hasSubs is len(senc.SubSamples) != 0 and ss is              *)
(* senc.SubSamples[i].  The result records every IV handed to the cipher.  *)

\* lines 217-224
NormalizeIV(iv) == IF Len(iv) = 8 THEN iv \o ZeroPad ELSE iv

\* lines 230-241: iteration j of the subsample loop and all that follow it
RECURSIVE SubsampleLoop(_, _, _, _, _, _, _, _)
SubsampleLoop(buf, ss, j, pos, out, ivs, key, iv) ==
    IF j > Len(ss) THEN [err |-> "nil", out |-> out, ivs |-> ivs]
    ELSE
      LET nrClear == ss[j].BytesOfClearData
          nrEnc   == ss[j].BytesOfProtectedData
          pos1    == pos + nrClear
          pos2    == pos1 + nrEnc
      IN  IF ~SliceOK(Len(buf), pos, pos1)
          THEN [err |-> "panic", out |-> <<>>, ivs |-> ivs]
          ELSE IF ~SliceOK(Len(buf), pos1, pos2)
          THEN [err |-> "panic", out |-> <<>>, ivs |-> ivs]
          ELSE
            LET c == DecryptSampleCTR(Slice(buf, pos1, pos2), key, iv)
            IN  IF c.err # "nil"
                THEN [err |-> c.err, out |-> <<>>, ivs |-> Append(ivs, iv)]
                ELSE SubsampleLoop(buf, ss, j + 1, pos2,
                                   out \o Slice(buf, pos, pos1) \o c.out,
                                   Append(ivs, iv), key, iv)

decryptSample(buf, n, ivIn, hasSubs, ss, key) ==
    LET iv == NormalizeIV(ivIn)
    IN  IF hasSubs
        THEN SubsampleLoop(buf, ss, 1, 0, <<>>, <<>>, key, iv)
        ELSE LET c == DecryptSampleCTR(Slice(buf, 0, n), key, iv)
             IN  IF c.err # "nil"
                 THEN [err |-> c.err, out |-> <<>>, ivs |-> <<iv>>]
                 ELSE [err |-> "nil", out |-> c.out, ivs |-> <<iv>>]

----------------------------------------------------------------------------
(* The inputs of decodeFragment.                                           *)

\* the key start() hands on: 16 bytes (32 hex characters)
Key == [k \in 1..16 |-> (11 * k) % ByteMod]

\* payload byte k of the mdat buffer
MdatByte(k) == (16 * k + 1) % ByteMod

Buffers == { [k \in 1..m |-> MdatByte(k)] : m \in 0..(MaxData + MaxSpare) }

IVLengths == {0, 4, 8, 16}

IVs == { [k \in 1..m |-> (5 * k + 2) % ByteMod] : m \in IVLengths }

SubSamplePatterns ==
    [BytesOfClearData : 0..MaxClear, BytesOfProtectedData : 0..MaxProt]

SubSampleLists ==
    UNION { [1..m -> SubSamplePatterns] : m \in 0..MaxSubs }

DecIdle ==
    [state |-> "idle", hasSubs |-> FALSE, buf |-> <<>>, n |-> 0, iv |-> <<>>,
     ss |-> <<>>, err |-> "nil", out |-> <<>>, ivs |-> <<>>]

CencIdle == [state |-> "idle", k |-> 0]

TreeIdle == [state |-> "idle", root |-> <<>>, nextId |-> 0, added |-> <<>>]

WireIdle == [state |-> "idle", kind |-> "none"]

----------------------------------------------------------------------------------------------------------------------------------------
(* One call of decryptSample, as decodeFragment makes it at main.go 197    *)
(* for sample i of a fragment.  The fragment's senc box either carries a   *)
(* subsample list for each of its samples (hasSubs) or none at all.        *)

InitDecrypt ==
    /\ \E buf \in Buffers, n \in 0..MaxData, iv \in IVs, hs \in BOOLEAN,
          ss \in SubSampleLists :
          /\ n <= Len(buf)
          /\ Len(buf) - n <= MaxSpare
          /\ hs \/ ss = <<>>
          /\ dec = [DecIdle EXCEPT !.state = "call", !.hasSubs = hs, !.buf = buf,
                                   !.n = n, !.iv = iv, !.ss = ss]
    /\ cenc = CencIdle
    /\ tree = TreeIdle
    /\ wire = WireIdle

DecryptSampleCall ==
    /\ dec.state = "call"
    /\ LET r == decryptSample(dec.buf, dec.n, dec.iv, dec.hasSubs, dec.ss, Key)
       IN  dec' = [dec EXCEPT !.state = "ret", !.err = r.err, !.out = r.out,
                              !.ivs = r.ivs]
    /\ UNCHANGED <<cenc, tree, wire>>

NextDecrypt == DecryptSampleCall

SpecDecrypt == InitDecrypt /\ [][NextDecrypt]_vars

----------------------------------------------------------------------------
(* Properties of decryptSample.                                            *)

\* the sample's payload: the first n bytes of the buffer
DecData == Slice(dec.buf, 0, dec.n)

RECURSIVE LayoutSum(_, _)
LayoutSum(ss, j) ==
    IF j = 0 THEN 0
    ELSE ss[j].BytesOfClearData + ss[j].BytesOfProtectedData + LayoutSum(ss, j - 1)

\* the protected spans of s under the layout ss, concatenated in order
RECURSIVE ProtectedSpans(_, _, _, _)
ProtectedSpans(s, ss, j, pos) ==
    IF j > Len(ss) THEN <<>>
    ELSE LET p1 == pos + ss[j].BytesOfClearData
             p2 == p1 + ss[j].BytesOfProtectedData
         IN  Slice(s, p1, p2) \o ProtectedSpans(s, ss, j + 1, p2)

\* C1: for a sample with a subsample list, the concatenated protected spans
\* are decrypted as one contiguous CTR stream seeded once from the
\* normalized IV: the keystream is not reset between subsample segments.
C1_KeystreamContinues ==
    (dec.state = "ret" /\ dec.hasSubs /\ dec.ss # <<>> /\ dec.err = "nil"
       /\ LayoutSum(dec.ss, Len(dec.ss)) = dec.n)
    => ProtectedSpans(dec.out, dec.ss, 1, 0)
         = XORKeyStream(ProtectedSpans(dec.buf, dec.ss, 1, 0), Key,
                        NormalizeIV(dec.iv), 0)

\* C2: a subsample list whose byte counts do not sum to the sample's length
\* is rejected with InvalidSubsampleLayout and yields no output sample.
C2_LayoutMismatchRejected ==
    (dec.state = "ret" /\ dec.hasSubs /\ dec.ss # <<>>
       /\ Len(NormalizeIV(dec.iv)) = 16
       /\ LayoutSum(dec.ss, Len(dec.ss)) # dec.n)
    => (dec.err = "InvalidSubsampleLayout" /\ dec.out = <<>>)

\* C3: a sample whose own subsample list is absent or empty is decrypted
\* whole, as one protected region, whatever the other samples of the senc
\* box carry; the output is as long as the input.
C3_NoListWholeSample ==
    (dec.state = "ret" /\ dec.ss = <<>> /\ Len(NormalizeIV(dec.iv)) = 16)
    => /\ dec.err = "nil"
       /\ Len(dec.out) = dec.n
       /\ dec.out = XORKeyStream(DecData, Key, NormalizeIV(dec.iv), 0)

\* C9: the cipher only ever gets a 16-byte IV: an 8-byte IV padded on the
\* right with 8 zero bytes, a 16-byte IV as it is; an IV of any other
\* length is rejected with InvalidIVLength and nothing is decrypted.
C9_IVNormalized ==
    dec.state = "ret"
    => /\ Len(dec.iv) = 8
            => \A k \in 1..Len(dec.ivs) : dec.ivs[k] = dec.iv \o ZeroPad
       /\ Len(dec.iv) = 16
            => \A k \in 1..Len(dec.ivs) : dec.ivs[k] = dec.iv
       /\ Len(dec.iv) \notin {8, 16}
            => (dec.err = "InvalidIVLength" /\ dec.out = <<>>)

----------------------------------------------------------------------------------------------------------------------------------------
(* decryptCenc (main.go 51-113): the loop over the tracks of the init      *)
(* segment.  A sample entry is [type, frma, schm]: the entry's box type    *)
(* and its sinf.Frma.DataFormat and sinf.Schm.SchemeType.  The scan of the *)
(* stsd children (lines 69-86) leaves in encv and enca the last child of   *)
(* each type, or nil: the track's encv and enca are drawn directly.  The   *)
(* collaborators outside the example (os.Create, the descriptor builders   *)
(* and init.Encode, GetFullSamples) succeed, or the one named by the input *)
(* fail does not.                                                          *)

NoEntry == [type |-> "none", frma |-> "", schm |-> ""]

NoTrex == 0

SchemeTypes == {"cenc", "cbcs"}

VideoEntries ==
    [type : {"encv"}, frma : {"avc1", "avc3", "hev1"}, schm : SchemeTypes]

AudioEntries ==
    [type : {"enca"}, frma : {"mp4a", "ac-3"}, schm : SchemeTypes]

Failures == {"none", "create", "init", "samples"}

TrexLists == UNION { [1..m -> 1..MaxTraks] : m \in 0..MaxTrexs }

\* lines 87-92: the range variable keeps the last element when none matches
RECURSIVE FindTrex(_, _, _)
FindTrex(trexs, trackID, k) ==
    IF k > Len(trexs) THEN (IF Len(trexs) = 0 THEN NoTrex ELSE trexs[Len(trexs)])
    ELSE IF trexs[k] = trackID THEN trexs[k]
    ELSE FindTrex(trexs, trackID, k + 1)

\* lines 115-134
createVideoInit(encv, fail) ==
    IF encv.frma # "avc1" /\ encv.frma # "avc3" THEN "frma not supported"
    ELSE IF encv.schm # "cenc" THEN "scheme type not supported"
    ELSE IF fail = "init" THEN "init error"
    ELSE "nil"

\* lines 136-149
createAudioInit(enca, fail) ==
    IF fail = "init" THEN "init error" ELSE "nil"

\* lines 151-178 with decodeFragment (180-204): every fragment's samples
\* are resolved with trex and decrypted, then the segment is written to w
decodeSegments(nFrags, trex, fail, ofhOpen) ==
    IF nFrags = 0 THEN [err |-> "nil", decrypted |-> FALSE, trexUsed |-> <<>>]
    ELSE IF fail = "samples"
    THEN [err |-> "samples error", decrypted |-> FALSE, trexUsed |-> <<trex>>]
    ELSE IF ~ofhOpen
    THEN [err |-> "write error", decrypted |-> TRUE, trexUsed |-> <<trex>>]
    ELSE [err |-> "nil", decrypted |-> TRUE,
          trexUsed |-> [f \in 1..nFrags |-> trex]]

\* lines 64-108: the body of the loop for one track
ProcessTrak(trackID, encv, enca, trexs, nFrags, fail) ==
    LET ofhOpen == encv # NoEntry \/ enca # NoEntry
        trex    == FindTrex(trexs, trackID, 1)
        base    == [trex |-> trex, decrypted |-> FALSE, trexUsed |-> <<>>]
        verr    == IF encv # NoEntry THEN createVideoInit(encv, fail) ELSE "nil"
        aerr    == IF enca # NoEntry THEN createAudioInit(enca, fail) ELSE "nil"
        seg     == decodeSegments(nFrags, trex, fail, ofhOpen)
    IN  IF ofhOpen /\ fail = "create"
        THEN [base EXCEPT !.trex = NoTrex] @@ [err |-> "create error"]
        ELSE IF verr # "nil" THEN base @@ [err |-> verr]
        ELSE IF aerr # "nil" THEN base @@ [err |-> aerr]
        ELSE [base EXCEPT !.decrypted = seg.decrypted, !.trexUsed = seg.trexUsed]
             @@ [err |-> seg.err]

CencInit(trexs, nTraks, nFrags) ==
    [state |-> "run", trexs |-> trexs, nTraks |-> nTraks, nFrags |-> nFrags,
     k |-> 0, trackID |-> 0, fail |-> "none",
     encv |-> NoEntry, enca |-> NoEntry, trex |-> NoTrex,
     decrypted |-> FALSE, trexUsed |-> <<>>, err |-> "nil"]

InitCenc ==
    /\ \E trexs \in TrexLists, nt \in 1..MaxTraks, nf \in 0..MaxFrags :
          cenc = CencInit(trexs, nt, nf)
    /\ dec = DecIdle
    /\ tree = TreeIdle
    /\ wire = WireIdle

\* lines 64-108 for the next track; an error returns from decryptCenc
NextTrak ==
    /\ cenc.state = "run"
    /\ cenc.k < cenc.nTraks
    /\ \E id \in 1..MaxTraks, encv \in VideoEntries \cup {NoEntry},
          enca \in AudioEntries \cup {NoEntry}, fail \in Failures :
          LET r == ProcessTrak(id, encv, enca, cenc.trexs, cenc.nFrags, fail)
          IN  cenc' = [cenc EXCEPT
                         !.k = cenc.k + 1, !.trackID = id, !.fail = fail,
                         !.encv = encv, !.enca = enca, !.trex = r.trex,
                         !.decrypted = r.decrypted, !.trexUsed = r.trexUsed,
                         !.err = r.err,
                         !.state = IF r.err = "nil" THEN "ret" ELSE "failed"]
    /\ UNCHANGED <<dec, tree, wire>>

\* line 109: the track's file is closed and the loop goes on
TrakDone ==
    /\ cenc.state = "ret"
    /\ cenc' = [CencInit(cenc.trexs, cenc.nTraks, cenc.nFrags) EXCEPT !.k = cenc.k]
    /\ UNCHANGED <<dec, tree, wire>>

\* line 112
DecryptCencDone ==
    /\ cenc.state = "run"
    /\ cenc.k = cenc.nTraks
    /\ cenc' = [cenc EXCEPT !.state = "done"]
    /\ UNCHANGED <<dec, tree, wire>>

NextCenc == NextTrak \/ TrakDone \/ DecryptCencDone

SpecCenc == InitCenc /\ [][NextCenc]_vars

----------------
(* Properties of decryptCenc.                                              *)

UnsupportedScheme == {"frma not supported", "scheme type not supported"}

\* a protected sample entry whose scheme and original format are known
Recognized(e) ==
    /\ e.schm = "cenc"
    /\ e.type = "encv" => e.frma \in {"avc1", "avc3"}
    /\ e.type = "enca" => e.frma = "mp4a"

\* C10: a protected track (encv or enca) whose scheme type or original
\* format is not recognized is reported as unsupported before any of its
\* samples is decrypted; it is never processed as if it were cenc.  (Stated
\* for a file with fragments and collaborators that do not fail.)
C10_UnsupportedSurfaced ==
    \A e \in {cenc.encv, cenc.enca} :
       (cenc.state \in {"ret", "failed"} /\ cenc.fail = "none" /\ cenc.nFrags > 0
          /\ e # NoEntry /\ ~Recognized(e))
       => (cenc.err \in UnsupportedScheme /\ ~cenc.decrypted)

\* C11: the trex that decodeSegments receives for a track, and with which
\* the samples of each of its fragments are resolved, is the trex of that
\* track (its TrackID is the track's TrackID); when Mvex holds no trex of
\* the track, no other track's trex is used (at most none is: nil).
\* (Stated for a track with a protected sample entry, whose output file
\* exists.)
C11_TrexOfTrack ==
    (cenc.state \in {"ret", "failed"} /\ cenc.trexUsed # <<>>
       /\ (cenc.encv # NoEntry \/ cenc.enca # NoEntry)) =>
       /\ cenc.trex \in {cenc.trackID, NoTrex}
       /\ \A f \in 1..Len(cenc.trexUsed) :
             cenc.trexUsed[f] \in {cenc.trackID, NoTrex}

----------------------------------------------------------------------------
(* The wvtt box family (mp4 package).  A box is a record; id stands for    *)
(* the identity of the Go object (its address), so that a typed field,     *)
(* which is a pointer, holds the id of the box it points to, and 0 for     *)
(* nil.  data is the string payload of a text leaf.                        *)

boxHeaderSize == 8

nrWvttBytesBeforeChildren == 16

TypeCode ==
    [wvtt |-> <<119, 118, 116, 116>>, vttC |-> <<118, 116, 116, 67>>,
     vlab |-> <<118, 108, 97, 98>>,   vtte |-> <<118, 116, 116, 101>>,
     vttc |-> <<118, 116, 116, 99>>,  vsid |-> <<118, 115, 105, 100>>,
     ctim |-> <<99, 116, 105, 109>>,  iden |-> <<105, 100, 101, 110>>,
     sttg |-> <<115, 116, 116, 103>>, payl |-> <<112, 97, 121, 108>>,
     vtta |-> <<118, 116, 116, 97>>,  btrt |-> <<98, 116, 114, 116>>]

\* leaves whose payload is one string, stored and written as it is
TextTypes == {"vttC", "vlab", "ctim", "iden", "sttg", "payl", "vtta"}

ContainerTypes == {"wvtt", "vttc"}

NewBox(id, type) ==
    [id |-> id, type |-> type, data |-> <<>>, SourceID |-> 0,
     DataReferenceIndex |-> 0, Children |-> <<>>,
     VttC |-> 0, Vlab |-> 0, Btrt |-> 0,
     Vsid |-> 0, Iden |-> 0, Ctim |-> 0, Sttg |-> 0, Payl |-> 0]

\* NewWvttBox, lines 26-28
NewWvttBox(id) == [NewBox(id, "wvtt") EXCEPT !.DataReferenceIndex = 1]

\* a WvttBox.AddChild that returns from the switch for a recognized child,
\* before the append
WvttAddChildTypedNotAppended(b, child) ==
    CASE child.type = "vttC" -> [b EXCEPT !.VttC = child.id]
      [] child.type = "vlab" -> [b EXCEPT !.Vlab = child.id]
      [] child.type = "btrt" -> [b EXCEPT !.Btrt = child.id]
      [] OTHER -> [b EXCEPT !.Children = Append(b.Children, child)]

\* WvttBox.AddChild, lines 31-44
WvttAddChild(b, child) ==
    LET b1 == CASE child.type = "vttC" -> [b EXCEPT !.VttC = child.id]
                [] child.type = "vlab" -> [b EXCEPT !.Vlab = child.id]
                [] child.type = "btrt" -> [b EXCEPT !.Btrt = child.id]
                [] OTHER -> b
    IN  [b1 EXCEPT !.Children = Append(b.Children, child)]

\* VttcBox.AddChild, lines 278-295
VttcAddChild(b, child) ==
    LET b1 == CASE child.type = "vsid" -> [b EXCEPT !.Vsid = child.id]
                [] child.type = "iden" -> [b EXCEPT !.Iden = child.id]
                [] child.type = "ctim" -> [b EXCEPT !.Ctim = child.id]
                [] child.type = "sttg" -> [b EXCEPT !.Sttg = child.id]
                [] child.type = "payl" -> [b EXCEPT !.Payl = child.id]
                [] OTHER -> b
    IN  [b1 EXCEPT !.Children = Append(b.Children, child)]

AddChild(b, child) ==
    IF b.type = "wvtt" THEN WvttAddChild(b, child) ELSE VttcAddChild(b, child)

(* Size.                                                                   *)

RECURSIVE Size(_)

RECURSIVE SumSizes(_, _)
SumSizes(children, k) ==
    IF k = 0 THEN 0 ELSE SumSizes(children, k - 1) + Size(children[k])

\* a WvttBox.Size that starts from the box header alone
WvttSizeFromBoxHeader(b) == boxHeaderSize + SumSizes(b.Children, Len(b.Children))

\* WvttBox.Size, lines 91-97
WvttSize(b) == nrWvttBytesBeforeChildren + SumSizes(b.Children, Len(b.Children))

\* containerSize
containerSize(children) == boxHeaderSize + SumSizes(children, Len(children))

\* VttcBox.Size, lines 316-318
VttcSize(b) == containerSize(b.Children)

\* the Size of vttC, vlab, ctim, iden, sttg, payl and vtta (lines 166-168)
TextSize(b) == boxHeaderSize + Len(b.data)

\* VsidBox.Size, lines 359-361
VsidSize(b) == boxHeaderSize + 4

\* VtteBox.Size, lines 250-252
VtteSize(b) == boxHeaderSize

\* btrt and the boxes of unknown type are not of this family: a box of
\* either is carried with its payload as it is
OpaqueSize(b) == boxHeaderSize + Len(b.data)

Size(b) ==
    CASE b.type = "wvtt" -> WvttSize(b)
      [] b.type = "vttc" -> VttcSize(b)
      [] b.type = "vsid" -> VsidSize(b)
      [] b.type = "vtte" -> VtteSize(b)
      [] b.type \in TextTypes -> TextSize(b)
      [] OTHER -> OpaqueSize(b)

(* Encode.                                                                 *)

Uint16(n) == <<(n \div 256) % 256, n % 256>>

Uint32(n) == <<(n \div 16777216) % 256, (n \div 65536) % 256,
               (n \div 256) % 256, n % 256>>

ZeroBytes(n) == [k \in 1..n |-> 0]

\* EncodeHeader: the 32-bit size and the four-character type
EncodeHeader(b) == Uint32(Size(b)) \o TypeCode[b.type]

RECURSIVE Encode(_)

RECURSIVE EncodeChildren(_, _)
EncodeChildren(children, k) ==
    IF k > Len(children) THEN <<>>
    ELSE Encode(children[k]) \o EncodeChildren(children, k + 1)

\* WvttBox.Encode, lines 100-123
WvttEncode(b) ==
    EncodeHeader(b) \o ZeroBytes(6) \o Uint16(b.DataReferenceIndex)
      \o EncodeChildren(b.Children, 1)

\* EncodeContainer
EncodeContainer(b) == EncodeHeader(b) \o EncodeChildren(b.Children, 1)

\* VttcBox.Encode, lines 326-328
VttcEncode(b) == EncodeContainer(b)

\* the Encode of vttC, vlab, ctim, iden, sttg, payl and vtta (lines 171-178)
TextEncode(b) == EncodeHeader(b) \o b.data

\* VsidBox.Encode, lines 364-373
VsidEncode(b) == EncodeHeader(b) \o Uint32(b.SourceID)

\* VtteBox.Encode, lines 255-257
VtteEncode(b) == EncodeHeader(b)

OpaqueEncode(b) == EncodeHeader(b) \o b.data

Encode(b) ==
    CASE b.type = "wvtt" -> WvttEncode(b)
      [] b.type = "vttc" -> VttcEncode(b)
      [] b.type = "vsid" -> VsidEncode(b)
      [] b.type = "vtte" -> VtteEncode(b)
      [] b.type \in TextTypes -> TextEncode(b)
      [] OTHER -> OpaqueEncode(b)

----------------------------------------------------------------------------------------------------------------------------------------
(* Decode.  A reader is the sequence of the bytes it has left.  A decoder  *)
(* gets the header, the box's start position and the payload reader (the   *)
(* source limited to the declared payload length) and returns the error,   *)
(* the box, the number of payload bytes it read, and for the containers    *)
(* the position its loop ended at.  The id of a decoded box is its start   *)
(* position plus one: every decoded box is a new object.  spare says       *)
(* whether the buffer ioutil.ReadAll returns has capacity beyond the bytes *)
(* read (zero bytes), which a slice expression past its length reads.      *)

NoBox == NewBox(0, "none")

Failed(err) == [err |-> err, box |-> NoBox, used |-> 0, end |-> 0]

Decoded(box, used, end) == [err |-> "nil", box |-> box, used |-> used, end |-> end]

BigEndianUint16(s) == s[1] * 256 + s[2]

BigEndianUint32(s) == ((s[1] * 256 + s[2]) * 256 + s[3]) * 256 + s[4]

TypeName(code) ==
    IF \E t \in DOMAIN TypeCode : TypeCode[t] = code
    THEN CHOOSE t \in DOMAIN TypeCode : TypeCode[t] = code
    ELSE "unknown"

\* decodeHeader: 4 bytes of size and 4 bytes of type; io.EOF when the source
\* is at its end (the extended-size form is not modelled)
decodeHeader(r) ==
    IF Len(r) = 0 THEN [err |-> "EOF", size |-> 0, name |-> "", hdrlen |-> 0]
    ELSE IF Len(r) < boxHeaderSize
    THEN [err |-> "unexpected EOF", size |-> 0, name |-> "", hdrlen |-> 0]
    ELSE [err |-> "nil", size |-> BigEndianUint32(SubSeq(r, 1, 4)),
          name |-> TypeName(SubSeq(r, 5, 8)), hdrlen |-> boxHeaderSize]

\* the payload reader: io.LimitReader(r, hdr.size - hdr.hdrlen)
LimitReader(r, n) == IF n <= 0 THEN <<>> ELSE SubSeq(r, 1, IF n < Len(r) THEN n ELSE Len(r))

\* the Decode of vttC, vlab, ctim, iden, sttg, payl and vtta (lines 149-158)
DecodeText(hdr, startPos, r) ==
    Decoded([NewBox(startPos + 1, hdr.name) EXCEPT !.data = r], Len(r), 0)

\* a DecodeVsid that reads the source id little-endian
DecodeVsidLittleEndian(hdr, startPos, r, spare) ==
    IF Len(r) < 4 /\ ~spare THEN Failed("panic")
    ELSE LET data == IF Len(r) < 4 THEN r \o ZeroBytes(4 - Len(r)) ELSE r
         IN  Decoded([NewBox(startPos + 1, "vsid") EXCEPT
                        !.SourceID = BigEndianUint32(<<data[4], data[3], data[2],
                                                       data[1]>>)],
                     Len(r), 0)

\* DecodeVsid, lines 343-351
DecodeVsid(hdr, startPos, r, spare) ==
    IF Len(r) < 4 /\ ~spare THEN Failed("panic")
    ELSE LET data == IF Len(r) < 4 THEN r \o ZeroBytes(4 - Len(r)) ELSE r
         IN  Decoded([NewBox(startPos + 1, "vsid") EXCEPT
                        !.SourceID = BigEndianUint32(SubSeq(data, 1, 4))],
                     Len(r), 0)

\* DecodeVtte, lines 245-247: nothing is read
DecodeVtte(hdr, startPos, r) == Decoded(NewBox(startPos + 1, "vtte"), 0, 0)

\* btrt and the boxes of unknown type: the payload as it is
DecodeOpaque(hdr, startPos, r) ==
    Decoded([NewBox(startPos + 1, hdr.name) EXCEPT !.data = r], Len(r), 0)

RECURSIVE DecodeBox(_, _, _)

\* the loop of DecodeWvtt, lines 65-81
RECURSIVE WvttChildren(_, _, _, _, _, _, _)
WvttChildren(w, pos, restReader, hdr, startPos, used, spare) ==
    LET d == DecodeBox(pos, restReader, spare)
    IN  IF d.err = "EOF" THEN Decoded(w, used, pos)
        ELSE IF d.err # "nil" THEN Failed(d.err)
        ELSE LET w1   == WvttAddChild(w, d.box)
                 pos1 == pos + Size(d.box)
             IN  IF pos1 = startPos + hdr.size THEN Decoded(w1, used, pos1)
                 ELSE IF pos1 > startPos + hdr.size THEN Failed("Bad size in wvtt")
                 ELSE WvttChildren(w1, pos1, d.rest, hdr, startPos, used, spare)

\* DecodeWvtt, lines 49-83; the slice reader panics on fewer than 8 bytes
DecodeWvtt(hdr, startPos, r, spare) ==
    IF Len(r) < 8 THEN Failed("panic")
    ELSE LET w == [NewBox(startPos + 1, "wvtt") EXCEPT
                     !.DataReferenceIndex = BigEndianUint16(SubSeq(r, 7, 8))]
         IN  WvttChildren(w, startPos + nrWvttBytesBeforeChildren,
                          SubSeq(r, 9, Len(r)), hdr, startPos, Len(r), spare)

\* DecodeContainerChildren: children are decoded until the offset is endPos
RECURSIVE DecodeContainerChildren(_, _, _, _, _)
DecodeContainerChildren(children, pos, endPos, r, spare) ==
    LET d == DecodeBox(pos, r, spare)
    IN  IF d.err = "EOF"
        THEN (IF pos = endPos
              THEN [err |-> "nil", children |-> children, rest |-> r, end |-> pos]
              ELSE [err |-> "MalformedContainer", children |-> <<>>, rest |-> r, end |-> pos])
        ELSE IF d.err # "nil"
        THEN [err |-> d.err, children |-> <<>>, rest |-> r, end |-> pos]
        ELSE LET pos1 == pos + Size(d.box)
             IN  IF pos1 = endPos
                 THEN [err |-> "nil", children |-> Append(children, d.box),
                       rest |-> d.rest, end |-> pos1]
                 ELSE IF pos1 > endPos
                 THEN [err |-> "MalformedContainer", children |-> <<>>,
                       rest |-> d.rest, end |-> pos1]
                 ELSE DecodeContainerChildren(Append(children, d.box), pos1, endPos,
                                              d.rest, spare)

\* lines 303-306
RECURSIVE VttcAddChildren(_, _, _)
VttcAddChildren(b, children, k) ==
    IF k > Len(children) THEN b
    ELSE VttcAddChildren(VttcAddChild(b, children[k]), children, k + 1)

\* DecodeVttc, lines 298-308
DecodeVttc(hdr, startPos, r, spare) ==
    LET c == DecodeContainerChildren(<<>>, startPos + 8, startPos + hdr.size, r,
                                     spare)
    IN  IF c.err # "nil" THEN Failed(c.err)
        ELSE Decoded(VttcAddChildren(NewBox(startPos + 1, "vttc"), c.children, 1),
                     Len(r) - Len(c.rest), c.end)

\* DecodeBox: the header, then the decoder registered for the type; the
\* bytes the decoder did not read stay in the source
DecodeBox(startPos, r, spare) ==
    LET h == decodeHeader(r)
    IN  IF h.err # "nil" THEN [err |-> h.err, box |-> NoBox, rest |-> r, end |-> 0]
        ELSE
          LET body == SubSeq(r, h.hdrlen + 1, Len(r))
              lr   == LimitReader(body, h.size - h.hdrlen)
              d    == CASE h.name = "wvtt" -> DecodeWvtt(h, startPos, lr, spare)
                        [] h.name = "vttc" -> DecodeVttc(h, startPos, lr, spare)
                        [] h.name = "vsid" -> DecodeVsid(h, startPos, lr, spare)
                        [] h.name = "vtte" -> DecodeVtte(h, startPos, lr)
                        [] h.name \in TextTypes -> DecodeText(h, startPos, lr)
                        [] OTHER -> DecodeOpaque(h, startPos, lr)
          IN  IF d.err # "nil"
              THEN [err |-> IF d.err = "EOF" THEN "decode: EOF" ELSE d.err,
                    box |-> NoBox, rest |-> body, end |-> d.end]
              ELSE [err |-> "nil", box |-> d.box,
                    rest |-> SubSeq(body, d.used + 1, Len(body)), end |-> d.end]

----------------
(* Building a box tree: a root container, and AddChild calls that append a *)
(* newly made box to any container of the tree.  added is the history of   *)
(* the calls, as pairs <<id of the container, id of the child>>.           *)

TextChars == {97}

Texts == UNION { [1..m -> TextChars] : m \in 0..MaxText }

SourceIDs == {0, 16909060}

DataReferenceIndexes == {1, 258}

\* the boxes a caller makes: struct literals, and NewWvttBox
NewBoxes(id) ==
    { [NewBox(id, t) EXCEPT !.data = d] : t \in TextTypes \cup {"btrt"}, d \in Texts }
    \cup { [NewBox(id, "vsid") EXCEPT !.SourceID = n] : n \in SourceIDs }
    \cup { NewBox(id, "vtte"), NewBox(id, "vttc"), NewWvttBox(id) }
    \cup { [NewBox(id, "wvtt") EXCEPT !.DataReferenceIndex = n] :
             n \in DataReferenceIndexes }

\* the paths (child indexes from the root) of the containers of a tree
RECURSIVE ContainerPaths(_)
ContainerPaths(b) ==
    IF b.type \notin ContainerTypes THEN {}
    ELSE {<<>>} \cup UNION { { <<k>> \o q : q \in ContainerPaths(b.Children[k]) } :
                               k \in 1..Len(b.Children) }

RECURSIVE BoxAt(_, _)
BoxAt(b, path) ==
    IF path = <<>> THEN b ELSE BoxAt(b.Children[Head(path)], Tail(path))

\* b.AddChild(child) on the container at path; every holder of a pointer
\* to that container sees the change
RECURSIVE AddChildAt(_, _, _)
AddChildAt(b, path, child) ==
    IF path = <<>> THEN AddChild(b, child)
    ELSE [b EXCEPT !.Children[Head(path)] = AddChildAt(@, Tail(path), child)]

TreeInit(root) == [state |-> "built", root |-> root, nextId |-> 2, added |-> <<>>]

InitTree ==
    /\ \E root \in { b \in NewBoxes(1) : b.type \in ContainerTypes } :
          tree = TreeInit(root)
    /\ dec = DecIdle
    /\ cenc = CencIdle
    /\ wire = WireIdle

AddChildCall ==
    /\ tree.state = "built"
    /\ tree.nextId <= MaxBoxes
    /\ \E path \in ContainerPaths(tree.root), child \in NewBoxes(tree.nextId) :
          tree' = [tree EXCEPT
                     !.root = AddChildAt(tree.root, path, child),
                     !.nextId = tree.nextId + 1,
                     !.added = Append(tree.added,
                                      <<BoxAt(tree.root, path).id, child.id>>)]
    /\ UNCHANGED <<dec, cenc, wire>>

NextTree == AddChildCall

SpecTree == InitTree /\ [][NextTree]_vars

----------------------------------------------------------------------------
(* Properties of the containers.                                           *)

TreeContainers == { BoxAt(tree.root, q) : q \in ContainerPaths(tree.root) }

TypedFields(b) ==
    IF b.type = "wvtt" THEN {"VttC", "Vlab", "Btrt"}
    ELSE {"Vsid", "Iden", "Ctim", "Sttg", "Payl"}

FieldType ==
    [VttC |-> "vttC", Vlab |-> "vlab", Btrt |-> "btrt", Vsid |-> "vsid",
     Iden |-> "iden", Ctim |-> "ctim", Sttg |-> "sttg", Payl |-> "payl"]

ChildIds(b) == [k \in 1..Len(b.Children) |-> b.Children[k].id]

\* the ids of the children added to container id, in the order of the calls
RECURSIVE AddedTo(_, _, _)
AddedTo(added, id, k) ==
    IF k > Len(added) THEN <<>>
    ELSE IF added[k][1] = id THEN <<added[k][2]>> \o AddedTo(added, id, k + 1)
    ELSE AddedTo(added, id, k + 1)

\* C5: after any sequence of AddChild calls, every non-nil typed field of a
\* WvttBox or VttcBox points to a box that is in its Children (the last
\* child of the field's type), and Children holds every added child exactly
\* once, in the order of the calls.
C5_FieldsInChildren ==
    tree.state = "built" =>
    \A b \in TreeContainers :
       /\ ChildIds(b) = AddedTo(tree.added, b.id, 1)
       /\ \A j, k \in 1..Len(b.Children) :
             b.Children[j].id = b.Children[k].id => j = k
       /\ \A f \in TypedFields(b) :
             /\ b[f] # 0 =>
                  \E k \in 1..Len(b.Children) :
                     /\ b.Children[k].id = b[f]
                     /\ b.Children[k].type = FieldType[f]
                     /\ \A j \in (k + 1)..Len(b.Children) :
                           b.Children[j].type # FieldType[f]
             /\ b[f] = 0 =>
                  \A k \in 1..Len(b.Children) : b.Children[k].type # FieldType[f]

\* a container with two children of one recognized type and its field set
C5_Witness ==
    /\ tree.state = "built"
    /\ \E b \in TreeContainers : \E f \in TypedFields(b) :
          /\ Len(b.Children) >= 2
          /\ b.Children[1].type = FieldType[f]
          /\ b.Children[2].type = FieldType[f]
          /\ b[f] = b.Children[2].id

\* the sizes of the children, summed from the last to the first
RECURSIVE ChildBytes(_)
ChildBytes(children) ==
    IF children = <<>> THEN 0
    ELSE Size(children[Len(children)])
           + ChildBytes(SubSeq(children, 1, Len(children) - 1))

\* the bytes a container writes before its children: the box header, and
\* for wvtt the 8 bytes of the sample entry as well
BytesBeforeChildren(b) == IF b.type = "wvtt" THEN 16 ELSE 8

\* C6 as stated: the Size of every container is the box header's size plus
\* the sum of its children's sizes.
C6_SizeIsHeaderPlusChildren ==
    tree.state = "built" =>
    \A b \in TreeContainers :
       b.Children # <<>> => Size(b) = 8 + ChildBytes(b.Children)

\* C6 amended: the Size of every container is the number of bytes it writes
\* before its children (8 for vttc, 16 for wvtt) plus the sum of the current
\* sizes of its children, and is the number of bytes Encode writes.
C6_SizeIsPrefixPlusChildren ==
    tree.state = "built" =>
    \A b \in TreeContainers :
       /\ Size(b) = BytesBeforeChildren(b) + ChildBytes(b.Children)
       /\ Len(Encode(b)) = Size(b)

\* a wvtt holding a vttc that got a child after it was added to the wvtt
C6_Witness ==
    /\ tree.state = "built"
    /\ tree.root.type = "wvtt"
    /\ Len(tree.root.Children) = 1
    /\ tree.root.Children[1].type = "vttc"
    /\ Len(tree.root.Children[1].Children) = 1
    /\ Size(tree.root) > 16 + 8


\* every box of the tree
RECURSIVE BoxesOf(_)
BoxesOf(b) ==
    {b} \cup UNION { BoxesOf(b.Children[k]) : k \in 1..Len(b.Children) }

\* the place in Children of the box a typed field points to: 0 for nil
FieldIndex(b, f) ==
    IF b[f] = 0 THEN 0
    ELSE IF \E k \in 1..Len(b.Children) : b.Children[k].id = b[f]
    THEN CHOOSE k \in 1..Len(b.Children) : b.Children[k].id = b[f]
    ELSE -1

\* a box without the identities of its objects: the typed fields as places
RECURSIVE Fields(_)
Fields(b) ==
    [type |-> b.type, data |-> b.data, SourceID |-> b.SourceID,
     DataReferenceIndex |-> b.DataReferenceIndex,
     Children |-> [k \in 1..Len(b.Children) |-> Fields(b.Children[k])],
     VttC |-> FieldIndex(b, "VttC"), Vlab |-> FieldIndex(b, "Vlab"),
     Btrt |-> FieldIndex(b, "Btrt"), Vsid |-> FieldIndex(b, "Vsid"),
     Iden |-> FieldIndex(b, "Iden"), Ctim |-> FieldIndex(b, "Ctim"),
     Sttg |-> FieldIndex(b, "Sttg"), Payl |-> FieldIndex(b, "Payl")]

\* C7: decoding the bytes Encode writes for a box tree of the wvtt family
\* gives a tree equal to it field for field (DataReferenceIndex, payloads,
\* ordered children, typed-field bindings), of the same Size, and reads all
\* the bytes.
C7_RoundTrip ==
    tree.state = "built" =>
    \A b \in BoxesOf(tree.root) :
       LET d == DecodeBox(0, Encode(b), TRUE)
       IN  /\ d.err = "nil"
           /\ Fields(d.box) = Fields(b)
           /\ Size(d.box) = Size(b)
           /\ d.rest = <<>>

\* a wvtt with DataReferenceIndex 258 holding a vttc that holds a vsid or a
\* non-empty payl
C7_Witness ==
    /\ tree.state = "built"
    /\ tree.root.type = "wvtt"
    /\ tree.root.DataReferenceIndex = 258
    /\ Len(tree.root.Children) = 1
    /\ tree.root.Children[1].type = "vttc"
    /\ Len(tree.root.Children[1].Children) = 1
    /\ LET c == tree.root.Children[1].Children[1]
       IN  \/ c.type = "vsid" /\ c.SourceID = 16909060
           \/ c.type = "payl" /\ c.data # <<>>

----------------------------------------------------------------------------
(* Decoding a byte stream: one DecodeBox call on a stream that holds one   *)
(* box.  A leaf stream declares the size of its header and payload.  A     *)
(* container stream holds well-framed leaves and declares its actual size  *)
(* plus skew: with a negative skew the children overrun the declared end,  *)
(* with a positive one the source ends before it.                          *)

PayloadByte(k) == 96 + k

Payloads == { [k \in 1..m |-> PayloadByte(k)] : m \in 0..MaxPayload }

Frame(type, payload) ==
    Uint32(boxHeaderSize + Len(payload)) \o TypeCode[type] \o payload

LeafTypes == TextTypes \cup {"vsid", "vtte"}

\* one leaf type for each shape of decoder
KidTypes == {"payl", "vsid", "vtte"}

KidLists ==
    UNION { [1..m -> [type : KidTypes, payload : Payloads]] : m \in 0..MaxKids }

RECURSIVE KidBytes(_, _)
KidBytes(kids, k) ==
    IF k > Len(kids) THEN <<>>
    ELSE Frame(kids[k].type, kids[k].payload) \o KidBytes(kids, k + 1)

ContainerFrame(type, kids, skew) ==
    LET prefix == IF type = "wvtt" THEN ZeroBytes(6) \o Uint16(1) ELSE <<>>
        body   == prefix \o KidBytes(kids, 1)
    IN  Uint32(boxHeaderSize + Len(body) + skew) \o TypeCode[type] \o body

StartPositions == {0, 24}

\* a child whose payload is as long as its type's Size assumes
PlainKid(kid) ==
    /\ kid.type = "vsid" => Len(kid.payload) = 4
    /\ kid.type = "vtte" => Len(kid.payload) = 0

WireCall(kind, stream, startPos, spare, plain) ==
    [state |-> "call", kind |-> kind, stream |-> stream, startPos |-> startPos,
     spare |-> spare, plain |-> plain, size |-> BigEndianUint32(SubSeq(stream, 1, 4)),
     err |-> "nil", box |-> NoBox, end |-> 0]

InitWire ==
    /\ \E startPos \in StartPositions, spare \in BOOLEAN :
          \/ \E t \in LeafTypes, p \in Payloads :
                wire = WireCall("leaf", Frame(t, p), startPos, spare, TRUE)
          \/ \E t \in ContainerTypes, kids \in KidLists, skew \in (-MaxSkew)..MaxSkew :
                wire = WireCall("container", ContainerFrame(t, kids, skew),
                                startPos, spare,
                                \A k \in 1..Len(kids) : PlainKid(kids[k]))
    /\ dec = DecIdle
    /\ cenc = CencIdle
    /\ tree = TreeIdle

DecodeBoxCall ==
    /\ wire.state = "call"
    /\ LET d == DecodeBox(wire.startPos, wire.stream, wire.spare)
       IN  wire' = [wire EXCEPT !.state = "ret", !.err = d.err, !.box = d.box,
                                !.end = d.end]
    /\ UNCHANGED <<dec, cenc, tree>>

NextWire == DecodeBoxCall

SpecWire == InitWire /\ [][NextWire]_vars

----------------------------------------------------------------------------
(* Properties of Decode.                                                   *)

\* C4: decoding a container's children succeeds only when the running
\* offset, advanced by each child's Size, lands exactly on the declared end
\* startPos + hdr.size; overrunning it, or reaching the end of the source
\* before it, is an error and no box is returned.  (Stated for children
\* whose own Size is their declared size.)
C4_ChildrenEndAtDeclaredSize ==
    (wire.state = "ret" /\ wire.kind = "container" /\ wire.plain)
    => /\ wire.err = "nil" => wire.end = wire.startPos + wire.size
       /\ wire.err # "nil" => wire.box = NoBox

\* C8: a leaf that decodes from a header declaring size S has Size S and
\* encodes to S bytes, for every payload length, vsid and vtte included.
C8_LeafSizeIsDeclaredSize ==
    (wire.state = "ret" /\ wire.kind = "leaf" /\ wire.err = "nil")
    => /\ Size(wire.box) = wire.size
       /\ Len(Encode(wire.box)) = wire.size

====
